---- MODULE Spec2Model ----
(***************************************************************************)
(* Model of geopolymer_mix_design (src/app.py, lines 69-281): the mix      *)
(* design calculation of the geopolymer concrete calculator.               *)
(*                                                                         *)
(* Numbers.  The program computes with Python numbers; the model computes  *)
(* with exact rationals <<n, d>> (d > 0, lowest terms).  The input sets    *)
(* below are chosen so that every comparison the code makes has the same   *)
(* outcome in binary floating point as in exact arithmetic, and so that    *)
(* every intermediate numerator and denominator fits TLC's integers.       *)
(*                                                                         *)
(* A call is modelled block by block: pc names the block of the function   *)
(* body that runs next; "returned" and "raised" are the two ways the call  *)
(* can end (a return statement, or an uncaught ZeroDivisionError).         *)
(***************************************************************************)
EXTENDS Integers, Sequences, FiniteSets, TLC

(***************************************************************************)
(* Bound of the model: the inputs explored are the reference scenario      *)
(* with at most MaxVaried of the eight arguments replaced by another value *)
(* of that argument's set.                                                 *)
(***************************************************************************)
MaxVaried == 2

(***************************************************************************)
(* Bound of the model of repeated calls: the number of calls in a row.     *)
(***************************************************************************)
MaxCalls == 3

(***************************************************************************)
(* Exact rational arithmetic.                                              *)
(***************************************************************************)
Abs(n) == IF n < 0 THEN -n ELSE n

RECURSIVE GCD(_, _)
GCD(a, b) == IF b = 0 THEN a ELSE GCD(b, a % b)

Norm(n, d) == LET g == GCD(Abs(n), d) IN <<n \div g, d \div g>>

\* the integer n, and the fraction n/d (d > 0)
R(n) == <<n, 1>>
Q(n, d) == Norm(n, d)

RAdd(a, b) ==
    LET g == GCD(a[2], b[2])
    IN  Norm(a[1] * (b[2] \div g) + b[1] * (a[2] \div g), (a[2] \div g) * b[2])

RNeg(a) == <<-a[1], a[2]>>

RSub(a, b) == RAdd(a, RNeg(b))

RMul(a, b) ==
    LET g1 == GCD(Abs(a[1]), b[2])
        g2 == GCD(Abs(b[1]), a[2])
    IN  <<(a[1] \div g1) * (b[1] \div g2), (a[2] \div g2) * (b[2] \div g1)>>

RIsZero(a) == a[1] = 0

\* 1/b, for b # 0
RInv(b) == IF b[1] > 0 THEN <<b[2], b[1]>> ELSE <<-b[2], -b[1]>>

\* a/b, for b # 0 (the callers raise ZeroDivisionError when b = 0)
RDiv(a, b) == RMul(a, RInv(b))

RLt(a, b) == RSub(a, b)[1] < 0
RLe(a, b) == RSub(a, b)[1] <= 0
RGt(a, b) == RLt(b, a)
RAbs(a) == <<Abs(a[1]), a[2]>>

\* sum(d.values()) of a dict d whose values are numbers
RECURSIVE SumValues(_)
SumValues(d) ==
    IF DOMAIN d = {} THEN R(0)
    ELSE LET k == CHOOSE x \in DOMAIN d : TRUE
         IN  RAdd(d[k], SumValues([x \in DOMAIN d \ {k} |-> d[x]]))

\* f"{x:.2f}": x rounded to two decimals (ties to even), as a rational
Format2f(x) ==
    LET s  == IF x[1] < 0 THEN -1 ELSE 1
        n  == Abs(x[1]) * 100
        q  == n \div x[2]
        r2 == 2 * (n % x[2])
        up == (r2 > x[2]) \/ (r2 = x[2] /\ q % 2 = 1)
    IN  Norm(s * (IF up THEN q + 1 ELSE q), 100)

(***************************************************************************)
(* The inputs.                                                             *)
(***************************************************************************)
SS == "Sodium Silicate"
SH == "Sodium Hydroxide"

PrecursorNames == {"Fly Ash", "GGBFS"}

\* specific gravity entered for each precursor
PrecursorSg == [n \in PrecursorNames |-> IF n = "Fly Ash" THEN R(2) ELSE Q(5, 2)]

\* percentages: 70 with 29.8 .. 30.2 puts the sum on both sides of the
\* tolerance; -30 with 130 sums to 100 with a negative share
Percentages ==
    {R(0), Q(298, 10), Q(299, 10), R(30), Q(301, 10), Q(302, 10), R(70), R(100),
     R(-30), R(130)}

\* the precursors dicts: any subset of the names, any percentage for each
PrecursorDicts ==
    UNION {[S -> Percentages] : S \in SUBSET PrecursorNames}

MkPrecursors(p) == [n \in DOMAIN p |-> [percentage |-> p[n], sg |-> PrecursorSg[n]]]

PrecursorSets == {MkPrecursors(p) : p \in PrecursorDicts}

MkSilicate(a, b, c) == [sio2 |-> a, na2o |-> b, h2o |-> c, sg |-> Q(3, 2)]

\* sodium silicate compositions (sio2, na2o, h2o)
Silicates ==
    { MkSilicate(R(30), R(15), R(55)),         \* modulus 2.0, the upper end
      MkSilicate(R(35), R(18), R(47)),         \* every value inside its band
      MkSilicate(R(20), R(25), R(55)),         \* modulus 0.8
      MkSilicate(R(36), R(10), R(54)),         \* modulus 3.6
      MkSilicate(R(12), R(20), R(68)),         \* modulus 0.6, the lower end
      MkSilicate(R(30), R(20), R(50)),         \* half solids, h2o on its upper end
      MkSilicate(R(50), R(0), R(50)),          \* na2o = 0
      MkSilicate(R(30), R(15), Q(549, 10)),    \* sum 99.9
      MkSilicate(R(30), R(15), Q(552, 10)),    \* sum 100.2
      MkSilicate(R(30), R(15), Q(548, 10)) }   \* sum 99.8

Hydroxides == {[molarity |-> R(15)], [molarity |-> R(0)]}

ActivatorSets ==
    {<<>>}
    \cup {(SH :> h) : h \in Hydroxides}
    \cup {(SS :> s) : s \in Silicates}
    \cup {(SS :> s) @@ (SH :> h) : s \in Silicates, h \in Hydroxides}

Strengths == {R(30), R(31), R(40), R(41), R(50), R(51)}

FineAggs ==
    { [sg |-> Q(5, 2), fm |-> Q(13, 5), moisture |-> R(0)],
      [sg |-> Q(5, 2), fm |-> Q(14, 5), moisture |-> R(0)],
      [sg |-> Q(5, 2), fm |-> Q(13, 5), moisture |-> R(2)],
      [sg |-> Q(5, 2), fm |-> R(2), moisture |-> R(0)],
      [sg |-> Q(5, 2), fm |-> Q(7, 2), moisture |-> R(0)] }

CoarseAggs ==
    { [sg |-> Q(5, 2), size |-> R(20), moisture |-> R(0)],
      [sg |-> Q(5, 2), size |-> R(10), moisture |-> R(0)],
      [sg |-> Q(5, 2), size |-> R(40), moisture |-> R(0)],
      [sg |-> Q(5, 2), size |-> R(20), moisture |-> R(10)] }

SsShRatios == {R(2), Q(1, 2), R(0)}
ActBinderRatios == {Q(9, 20), Q(3, 10), R(-2)}
ExtraWaters == {R(0), R(50), R(1000)}

\* the reference scenario: strength 40, 70/30 fly ash and slag, both activators,
\* ratio 2.0, activator/binder 0.45, no extra water, 20 mm aggregate
RefStrength == R(40)
RefPrecursors == MkPrecursors(("Fly Ash" :> R(70)) @@ ("GGBFS" :> R(30)))
RefActivators == (SS :> MkSilicate(R(30), R(15), R(55))) @@ (SH :> [molarity |-> R(15)])
RefFineAgg == [sg |-> Q(5, 2), fm |-> Q(13, 5), moisture |-> R(0)]
RefCoarseAgg == [sg |-> Q(5, 2), size |-> R(20), moisture |-> R(0)]
RefSsShRatio == R(2)
RefActBinderRatio == Q(9, 20)
RefExtraWater == R(0)

Differs(a, b) == IF a = b THEN 0 ELSE 1

(***************************************************************************)
(* Validation and range check (lines 97-123).                              *)
(***************************************************************************)
\* line 100: sum(p['percentage'] for p in precursors.values())
PrecursorSum(pre) == SumValues([n \in DOMAIN pre |-> pre[n].percentage])

\* the tolerance test with a tolerance of 100: a sum of 0 is accepted
SumInvalidWide(s) == RGt(RAbs(RSub(s, R(100))), R(100))

\* the tolerance test without abs: a sum below 100 is never rejected
SumInvalidNoAbs(s) == RGt(RSub(s, R(100)), Q(1, 10))

\* lines 101, 107: abs(s - 100) > 0.1
SumInvalid(s) == RGt(RAbs(RSub(s, R(100))), Q(1, 10))

\* the composition sum without the water term
SilicateSumNoWater(ss) == RAdd(ss.sio2, ss.na2o)

\* line 106
SilicateSum(ss) == RAdd(RAdd(ss.sio2, ss.na2o), ss.h2o)

\* line 111, for na2o # 0
ActivatorModulus(ss) == RDiv(ss.sio2, ss.na2o)

\* the band test with the ends of the band excluded
OutsideOrOnEnd(x, lo, hi) == RLe(x, lo) \/ RLe(hi, x)

\* x < lo or x > hi
Outside(x, lo, hi) == RLt(x, lo) \/ RGt(x, hi)

\* lines 112-123: the warnings appended, in order
RangeWarnings(ss) ==
    (IF Outside(ActivatorModulus(ss), Q(6, 10), R(2))
        THEN <<[check |-> "modulus", value |-> Format2f(ActivatorModulus(ss))]>> ELSE <<>>)
    \o (IF Outside(ss.sio2, R(30), R(35))
        THEN <<[check |-> "sio2", value |-> ss.sio2]>> ELSE <<>>)
    \o (IF Outside(ss.na2o, R(12), R(18))
        THEN <<[check |-> "na2o", value |-> ss.na2o]>> ELSE <<>>)
    \o (IF Outside(ss.h2o, R(40), R(50))
        THEN <<[check |-> "h2o", value |-> ss.h2o]>> ELSE <<>>)

\* lines 102, 108: the dict returned on a validation failure
ErrorResult(which, s) == [error |-> [check |-> which, sum |-> s]]

(***************************************************************************)
(* Binder sizing (lines 125-139).                                          *)
(***************************************************************************)
\* the lookup with bands that exclude their upper bound
BinderContentStrict(strength) ==
    IF RLt(strength, R(30)) THEN R(350)
    ELSE IF RLt(strength, R(40)) THEN R(400)
    ELSE IF RLt(strength, R(50)) THEN R(450)
    ELSE R(500)

\* lines 126-133: total_binder_content, kg/m3
BinderContent(strength) ==
    IF RLe(strength, R(30)) THEN R(350)
    ELSE IF RLe(strength, R(40)) THEN R(400)
    ELSE IF RLe(strength, R(50)) THEN R(450)
    ELSE R(500)

\* the split without the division by 100
BinderQuantitiesUnscaled(content, pre) ==
    [n \in {m \in DOMAIN pre : RGt(pre[m].percentage, R(0))} |->
        RMul(content, pre[n].percentage)]

\* lines 136-139: one entry for each precursor with percentage > 0
BinderQuantities(content, pre) ==
    [n \in {m \in DOMAIN pre : RGt(pre[m].percentage, R(0))} |->
        RDiv(RMul(content, pre[n].percentage), R(100))]

(***************************************************************************)
(* Activator sizing and water (lines 141-175).                             *)
(***************************************************************************)
\* line 142
TotalActivator(content, abr) == RMul(content, abr)

\* the split with the two shares exchanged
ActivatorQuantitiesSwapped(total, act, ratio) ==
    IF SS \in DOMAIN act /\ SH \in DOMAIN act
    THEN LET ss_quantity == RDiv(total, RAdd(R(1), ratio))
         IN  (SS :> ss_quantity) @@ (SH :> RSub(total, ss_quantity))
    ELSE IF SS \in DOMAIN act THEN (SS :> total)
    ELSE IF SH \in DOMAIN act THEN (SH :> total)
    ELSE <<>>

\* the split applied to the sodium silicate share even when it is alone
ActivatorQuantitiesAlwaysSplit(total, act, ratio) ==
    IF SS \in DOMAIN act
    THEN LET ss_quantity == RDiv(RMul(total, ratio), RAdd(R(1), ratio))
         IN  IF SH \in DOMAIN act
             THEN (SS :> ss_quantity) @@ (SH :> RSub(total, ss_quantity))
             ELSE (SS :> ss_quantity)
    ELSE IF SH \in DOMAIN act THEN (SH :> total)
    ELSE <<>>

\* lines 144-157
ActivatorQuantities(total, act, ratio) ==
    IF SS \in DOMAIN act /\ SH \in DOMAIN act
    THEN LET ss_quantity == RDiv(RMul(total, ratio), RAdd(R(1), ratio))
         IN  (SS :> ss_quantity) @@ (SH :> RSub(total, ss_quantity))
    ELSE IF SS \in DOMAIN act THEN (SS :> total)
    ELSE IF SH \in DOMAIN act THEN (SH :> total)
    ELSE <<>>

\* lines 168, 244: molarity * 40 / 1000, kg/L
NaohSolidConcentration(molarity) == RDiv(RMul(molarity, R(40)), R(1000))

\* lines 169, 245: 1000 + concentration * 1000, kg/m3
NaohSolutionDensity(molarity) ==
    RAdd(R(1000), RMul(NaohSolidConcentration(molarity), R(1000)))

\* the solid fraction taken per litre of water instead of per litre of solution
NaohSolidFractionOfWater(molarity) == NaohSolidConcentration(molarity)

\* lines 170, 246: concentration / (density / 1000), for density # 0
NaohSolidFraction(molarity) ==
    RDiv(NaohSolidConcentration(molarity), RDiv(NaohSolutionDensity(molarity), R(1000)))

\* the divisions of lines 147 and 170 raise when the divisor is zero
ActivatorZeroDivisor(act, ratio) ==
    \/ SS \in DOMAIN act /\ SH \in DOMAIN act /\ RIsZero(RAdd(R(1), ratio))
    \/ SH \in DOMAIN act
          /\ RIsZero(RDiv(NaohSolutionDensity(act[SH].molarity), R(1000)))

\* lines 160-172
WaterInActivator(aq, act) ==
    LET fromSS == IF SS \in DOMAIN aq
                  THEN RDiv(RMul(aq[SS], act[SS].h2o), R(100)) ELSE R(0)
        fromSH == IF SH \in DOMAIN aq
                  THEN RMul(aq[SH], RSub(R(1), NaohSolidFraction(act[SH].molarity)))
                  ELSE R(0)
    IN  RAdd(fromSS, fromSH)

\* line 175
TotalWater(aq, act, extra) == RAdd(WaterInActivator(aq, act), extra)

(***************************************************************************)
(* Volume balance (lines 177-231).                                         *)
(***************************************************************************)
\* the air content as a percentage
AirContentPercent == R(2)

\* line 178
AirContent == Q(2, 100)

\* line 185: sum of qty / (sg * 1000), for sg # 0
BinderVolume(bq, pre) ==
    SumValues([n \in DOMAIN bq |-> RDiv(bq[n], RMul(pre[n].sg, R(1000)))])

\* line 195: 1000 + 0.04 * molarity * 40
ShDensity(molarity) == RAdd(R(1000), RMul(RMul(Q(4, 100), molarity), R(40)))

\* lines 188-196, for sg # 0 and density # 0
ActivatorVolume(aq, act) ==
    LET ofSS == IF SS \in DOMAIN aq
                THEN RDiv(aq[SS], RMul(act[SS].sg, R(1000))) ELSE R(0)
        ofSH == IF SH \in DOMAIN aq
                THEN RDiv(aq[SH], ShDensity(act[SH].molarity)) ELSE R(0)
    IN  RAdd(ofSS, ofSH)

\* the aggregate volume clamped at zero
AggVolumeClamped(bq, aq, pre, act, extra) ==
    LET v == RSub(RSub(RSub(RSub(R(1), BinderVolume(bq, pre)), ActivatorVolume(aq, act)),
                       RDiv(extra, R(1000))),
                  AirContent)
    IN  IF RLt(v, R(0)) THEN R(0) ELSE v

\* lines 199-202: total_volume - binder - activator - extra water - air
AggVolume(bq, aq, pre, act, extra) ==
    RSub(RSub(RSub(RSub(R(1), BinderVolume(bq, pre)), ActivatorVolume(aq, act)),
              RDiv(extra, R(1000))),
         AirContent)

\* the adjustment with its sign turned: a higher fineness modulus raises the fraction
FaFractionRising(fine, coarse) ==
    LET base == IF RLe(coarse.size, R(10)) THEN Q(45, 100)
                ELSE IF RLe(coarse.size, R(20)) THEN Q(40, 100)
                ELSE Q(35, 100)
    IN  RAdd(base, RMul(RSub(fine.fm, Q(26, 10)), Q(5, 100)))

\* lines 205-217
FaFraction(fine, coarse) ==
    LET base == IF RLe(coarse.size, R(10)) THEN Q(45, 100)
                ELSE IF RLe(coarse.size, R(20)) THEN Q(40, 100)
                ELSE Q(35, 100)
    IN  RAdd(base, RMul(RSub(Q(26, 10), fine.fm), Q(5, 100)))

\* lines 220, 223, 230
FaQuantityWet(vol, fine, coarse) ==
    LET fa_volume   == RMul(vol, FaFraction(fine, coarse))
        fa_quantity == RMul(RMul(fa_volume, fine.sg), R(1000))
    IN  RMul(fa_quantity, RAdd(R(1), RDiv(fine.moisture, R(100))))

\* lines 220-221, 224, 231
CaQuantityWet(vol, fine, coarse) ==
    LET fa_volume   == RMul(vol, FaFraction(fine, coarse))
        ca_volume   == RSub(vol, fa_volume)
        ca_quantity == RMul(RMul(ca_volume, coarse.sg), R(1000))
    IN  RMul(ca_quantity, RAdd(R(1), RDiv(coarse.moisture, R(100))))

\* the divisions of lines 185, 190 and 196 raise when the divisor is zero
VolumeZeroDivisor(bq, aq, pre, act) ==
    \/ \E n \in DOMAIN bq : RIsZero(RMul(pre[n].sg, R(1000)))
    \/ SS \in DOMAIN aq /\ RIsZero(RMul(act[SS].sg, R(1000)))
    \/ SH \in DOMAIN aq /\ RIsZero(ShDensity(act[SH].molarity))

(***************************************************************************)
(* Properties and the result (lines 233-281).                              *)
(***************************************************************************)
\* the density without the extra water
ConcreteDensityNoExtraWater(bq, aq, extra, faWet, caWet) ==
    RAdd(RAdd(RAdd(SumValues(bq), SumValues(aq)), faWet), caWet)

\* line 234
ConcreteDensity(bq, aq, extra, faWet, caWet) ==
    RAdd(RAdd(RAdd(RAdd(SumValues(bq), SumValues(aq)), extra), faWet), caWet)

\* lines 237-247
ActivatorSolids(aq, act) ==
    LET ofSS == IF SS \in DOMAIN aq
                THEN RDiv(RMul(aq[SS], RAdd(act[SS].sio2, act[SS].na2o)), R(100))
                ELSE R(0)
        ofSH == IF SH \in DOMAIN aq
                THEN RMul(aq[SH], NaohSolidFraction(act[SH].molarity)) ELSE R(0)
    IN  RAdd(ofSS, ofSH)

\* the solids without the activator solids
TotalSolidsBinderOnly(bq, aq, act) == SumValues(bq)

\* line 250
TotalSolids(bq, aq, act) == RAdd(SumValues(bq), ActivatorSolids(aq, act))

\* lines 253-256
WaterSolidsRatio(water, solids) ==
    IF RGt(solids, R(0)) THEN RDiv(water, solids) ELSE R(0)

\* the ratio expressed in percent of the binder
PerBinderPercent(x, bq) ==
    IF RGt(SumValues(bq), R(0)) THEN RMul(RDiv(x, SumValues(bq)), R(100)) ELSE R(0)

\* lines 275-277: x / total binder if total binder > 0 else 0
PerBinder(x, bq) ==
    IF RGt(SumValues(bq), R(0)) THEN RDiv(x, SumValues(bq)) ELSE R(0)

\* lines 259-279
Results(strength, bq, aq, act, extra, water, faWet, caWet, warns) ==
    [ target_strength               |-> strength,
      binder_quantities             |-> bq,
      total_binder                  |-> SumValues(bq),
      activator_quantities          |-> aq,
      total_activator               |-> SumValues(aq),
      activator_solids              |-> ActivatorSolids(aq, act),
      fine_aggregate                |-> faWet,
      coarse_aggregate              |-> caWet,
      water_content                 |-> water,
      extra_water                   |-> extra,
      water_geopolymer_solids_ratio |-> WaterSolidsRatio(water, TotalSolids(bq, aq, act)),
      concrete_density              |-> ConcreteDensity(bq, aq, extra, faWet, caWet),
      warnings                      |-> warns,
      mix_ratio                     |-> [ binder     |-> R(1),
                                          activator  |-> PerBinder(SumValues(aq), bq),
                                          fine_agg   |-> PerBinder(faWet, bq),
                                          coarse_agg |-> PerBinder(caWet, bq) ] ]

(***************************************************************************)
(* One call of geopolymer_mix_design.                                      *)
(***************************************************************************)
VARIABLES
    target_strength, precursors, activators, fine_agg, coarse_agg,
    ss_sh_ratio, act_binder_ratio, extra_water,       \* the arguments
    pc,                                               \* the block that runs next
    warnings, total_binder_content, binder_quantities,
    activator_quantities, total_water, agg_volume, fa_fraction,
    fa_quantity_wet, ca_quantity_wet,                 \* the locals
    results,                                          \* the value returned
    called_with,                                      \* the arguments as passed
    history                                           \* the calls made before

args == <<target_strength, precursors, activators, fine_agg, coarse_agg,
          ss_sh_ratio, act_binder_ratio, extra_water>>

locals == <<warnings, total_binder_content, binder_quantities,
            activator_quantities, total_water, agg_volume, fa_fraction,
            fa_quantity_wet, ca_quantity_wet>>

\* what the caller keeps: the values it passed, and the outcome of each
\* earlier call, oldest first
calls == <<called_with, history>>

vars == <<args, pc, locals, results, calls>>

\* the number of arguments that differ from the reference scenario
Varied ==
    Differs(target_strength, RefStrength) + Differs(precursors, RefPrecursors)
        + Differs(activators, RefActivators) + Differs(fine_agg, RefFineAgg)
        + Differs(coarse_agg, RefCoarseAgg) + Differs(ss_sh_ratio, RefSsShRatio)
        + Differs(act_binder_ratio, RefActBinderRatio)
        + Differs(extra_water, RefExtraWater)

\* a local not assigned yet, and the value of a call that has not returned
Unset == <<>>

Init ==
    /\ target_strength \in Strengths
    /\ precursors \in PrecursorSets
    /\ activators \in ActivatorSets
    /\ Differs(target_strength, RefStrength) + Differs(precursors, RefPrecursors)
         + Differs(activators, RefActivators) <= MaxVaried
    /\ fine_agg \in FineAggs
    /\ coarse_agg \in CoarseAggs
    /\ ss_sh_ratio \in SsShRatios
    /\ act_binder_ratio \in ActBinderRatios
    /\ extra_water \in ExtraWaters
    /\ Varied <= MaxVaried
    /\ pc = "validate_precursors"
    /\ warnings = <<>>                                 \* line 97
    /\ total_binder_content = Unset
    /\ binder_quantities = Unset
    /\ activator_quantities = Unset
    /\ total_water = Unset
    /\ agg_volume = Unset
    /\ fa_fraction = Unset
    /\ fa_quantity_wet = Unset
    /\ ca_quantity_wet = Unset
    /\ results = Unset
    /\ called_with = args
    /\ history = <<>>

\* the two sum checks in the other order: the silicate composition first
ValidateSilicateFirst ==
    /\ pc = "validate_precursors"
    /\ IF SS \in DOMAIN activators /\ SumInvalid(SilicateSum(activators[SS]))
       THEN /\ results' = ErrorResult("silicate", SilicateSum(activators[SS]))
            /\ pc' = "returned"
       ELSE IF SumInvalid(PrecursorSum(precursors))
       THEN /\ results' = ErrorResult("precursor", PrecursorSum(precursors))
            /\ pc' = "returned"
       ELSE /\ pc' = "validate_silicate"
            /\ UNCHANGED results
    /\ UNCHANGED <<args, locals, calls>>

\* lines 100-102
ValidatePrecursors ==
    /\ pc = "validate_precursors"
    /\ IF SumInvalid(PrecursorSum(precursors))
       THEN /\ results' = ErrorResult("precursor", PrecursorSum(precursors))
            /\ pc' = "returned"
       ELSE /\ pc' = "validate_silicate"
            /\ UNCHANGED results
    /\ UNCHANGED <<args, locals, calls>>

\* lines 104-123
ValidateSilicate ==
    /\ pc = "validate_silicate"
    /\ IF SS \notin DOMAIN activators
       THEN /\ pc' = "size_binder"
            /\ UNCHANGED <<warnings, results>>
       ELSE IF SumInvalid(SilicateSum(activators[SS]))
       THEN /\ results' = ErrorResult("silicate", SilicateSum(activators[SS]))
            /\ pc' = "returned"
            /\ UNCHANGED warnings
       ELSE IF RIsZero(activators[SS].na2o)
       THEN /\ pc' = "raised"                          \* line 111: ZeroDivisionError
            /\ UNCHANGED <<warnings, results>>
       ELSE /\ warnings' = warnings \o RangeWarnings(activators[SS])
            /\ pc' = "size_binder"
            /\ UNCHANGED results
    /\ UNCHANGED <<args, total_binder_content, binder_quantities,
                   activator_quantities, total_water, agg_volume, fa_fraction,
                   fa_quantity_wet, ca_quantity_wet, calls>>

\* the binder sized in place: each mass is also written over the percentage
\* of the precursor's entry in the dict that was passed in
SizeBinderInPlace ==
    /\ pc = "size_binder"
    /\ total_binder_content' = BinderContent(target_strength)
    /\ binder_quantities' = BinderQuantities(BinderContent(target_strength), precursors)
    /\ precursors' =
          [n \in DOMAIN precursors |->
              IF n \in DOMAIN binder_quantities'
              THEN [precursors[n] EXCEPT !.percentage = binder_quantities'[n]]
              ELSE precursors[n]]
    /\ pc' = "size_activators"
    /\ UNCHANGED <<target_strength, activators, fine_agg, coarse_agg, ss_sh_ratio,
                   act_binder_ratio, extra_water, warnings, activator_quantities,
                   total_water, agg_volume, fa_fraction, fa_quantity_wet,
                   ca_quantity_wet, results, calls>>

\* lines 125-139
SizeBinder ==
    /\ pc = "size_binder"
    /\ total_binder_content' = BinderContent(target_strength)
    /\ binder_quantities' = BinderQuantities(BinderContent(target_strength), precursors)
    /\ pc' = "size_activators"
    /\ UNCHANGED <<args, warnings, activator_quantities, total_water, agg_volume,
                   fa_fraction, fa_quantity_wet, ca_quantity_wet, results, calls>>

\* lines 141-175
SizeActivators ==
    /\ pc = "size_activators"
    /\ IF ActivatorZeroDivisor(activators, ss_sh_ratio)
       THEN /\ pc' = "raised"                          \* lines 147, 170
            /\ UNCHANGED <<activator_quantities, total_water>>
       ELSE LET aq == ActivatorQuantities(
                          TotalActivator(total_binder_content, act_binder_ratio),
                          activators, ss_sh_ratio)
            IN  /\ activator_quantities' = aq
                /\ total_water' = TotalWater(aq, activators, extra_water)
                /\ pc' = "balance_volumes"
    /\ UNCHANGED <<args, warnings, total_binder_content, binder_quantities,
                   agg_volume, fa_fraction, fa_quantity_wet, ca_quantity_wet,
                   results, calls>>

\* lines 177-231
BalanceVolumes ==
    /\ pc = "balance_volumes"
    /\ IF VolumeZeroDivisor(binder_quantities, activator_quantities,
                            precursors, activators)
       THEN /\ pc' = "raised"                          \* lines 185, 190, 196
            /\ UNCHANGED <<agg_volume, fa_fraction, fa_quantity_wet, ca_quantity_wet>>
       ELSE LET vol == AggVolume(binder_quantities, activator_quantities,
                                 precursors, activators, extra_water)
            IN  /\ agg_volume' = vol
                /\ fa_fraction' = FaFraction(fine_agg, coarse_agg)
                /\ fa_quantity_wet' = FaQuantityWet(vol, fine_agg, coarse_agg)
                /\ ca_quantity_wet' = CaQuantityWet(vol, fine_agg, coarse_agg)
                /\ pc' = "compute_properties"
    /\ UNCHANGED <<args, warnings, total_binder_content, binder_quantities,
                   activator_quantities, total_water, results, calls>>

\* lines 233-281
ComputeProperties ==
    /\ pc = "compute_properties"
    /\ results' = Results(target_strength, binder_quantities, activator_quantities,
                          activators, extra_water, total_water,
                          fa_quantity_wet, ca_quantity_wet, warnings)
    /\ pc' = "returned"
    /\ UNCHANGED <<args, locals, calls>>

\* the warnings of a call that keeps the list of the call before it
KeptWarnings(old) == old

\* line 97, run at the start of every call: warnings is bound to a new list
FreshWarnings(old) == <<>>

\* the arguments of the reference scenario
RefArgs == <<RefStrength, RefPrecursors, RefActivators, RefFineAgg, RefCoarseAgg,
             RefSsShRatio, RefActBinderRatio, RefExtraWater>>

\* The caller, once a call has ended, calls again (lines 535-544 run on every
\* press of the button): with the arguments of this call, with those of an
\* earlier call, or with the reference scenario.  The function starts over
\* with new locals; the dicts passed are those the caller holds.
CallAgain ==
    /\ pc \in {"returned", "raised"}
    /\ Len(history) + 1 < MaxCalls
    /\ history' = Append(history,
                         [args |-> called_with, ended |-> pc, results |-> results])
    /\ \E a \in {args, RefArgs} \cup {history[i].args : i \in 1..Len(history)} :
          /\ target_strength' = a[1]
          /\ precursors' = a[2]
          /\ activators' = a[3]
          /\ fine_agg' = a[4]
          /\ coarse_agg' = a[5]
          /\ ss_sh_ratio' = a[6]
          /\ act_binder_ratio' = a[7]
          /\ extra_water' = a[8]
          /\ called_with' = a
    /\ pc' = "validate_precursors"
    /\ warnings' = FreshWarnings(warnings)
    /\ total_binder_content' = Unset
    /\ binder_quantities' = Unset
    /\ activator_quantities' = Unset
    /\ total_water' = Unset
    /\ agg_volume' = Unset
    /\ fa_fraction' = Unset
    /\ fa_quantity_wet' = Unset
    /\ ca_quantity_wet' = Unset
    /\ results' = Unset

Next ==
    \/ ValidatePrecursors
    \/ ValidateSilicate
    \/ SizeBinder
    \/ SizeActivators
    \/ BalanceVolumes
    \/ ComputeProperties

Spec == Init /\ [][Next]_vars

\* Repeated calls: up to MaxCalls calls in a row, the first one with at most
\* MaxVaried - 1 arguments changed.
InitCalls == Init /\ Varied < MaxVaried

NextCalls == Next \/ CallAgain

SpecCalls == InitCalls /\ [][NextCalls]_vars

\* how the call ended
Returned == pc = "returned"
Failed == Returned /\ DOMAIN results = {"error"}
Succeeded == Returned /\ DOMAIN results # {"error"}

(***************************************************************************)
(* The claims.  The formulas below restate each property on the arguments  *)
(* and the returned value with integer arithmetic of their own: a/b < c/d  *)
(* is a*d < c*b, and a/b = c/d is a*d = c*b, for b, d > 0.                 *)
(***************************************************************************)
Less(a, b) == a[1] * b[2] < b[1] * a[2]
Same(a, b) == a[1] * b[2] = b[1] * a[2]

\* the sum of the precursor percentages, counted in tenths of a percent
RECURSIVE TenthsOf(_)
TenthsOf(pre) ==
    IF DOMAIN pre = {} THEN 0
    ELSE LET k == CHOOSE x \in DOMAIN pre : TRUE
         IN  (pre[k].percentage[1] * 10) \div pre[k].percentage[2]
               + TenthsOf([x \in DOMAIN pre \ {k} |-> pre[x]])

\* the sum sio2 + na2o + h2o, counted in tenths of a percent
SilicateTenths(ss) ==
    (ss.sio2[1] * 10) \div ss.sio2[2] + (ss.na2o[1] * 10) \div ss.na2o[2]
        + (ss.h2o[1] * 10) \div ss.h2o[2]

\* a sum, in tenths, more than 0.1 away from 100
OffBy(tenths) == tenths < 999 \/ tenths > 1001

PrecursorError == Failed /\ results.error.check = "precursor"
SilicateError == Failed /\ results.error.check = "silicate"
HasSilicate == SS \in DOMAIN activators
HasHydroxide == SH \in DOMAIN activators

\* C1: for every numeric input, and in particular for a sodium silicate whose
\* composition sums to 100 with na2o = 0, the call ends by returning an error
\* descriptor or a full result: it never raises.
C1_NeverRaises == pc # "raised"

\* C2: the precursor-sum error is returned if and only if the sum of the
\* percentages is more than 0.1 away from 100 (exactly 0.1 away is accepted);
\* the returned value then holds the error only, and the error carries the sum.
C2_PrecursorSumError ==
    pc # "validate_precursors" =>
        /\ PrecursorError <=> OffBy(TenthsOf(precursors))
        /\ PrecursorError =>
              /\ DOMAIN results = {"error"}
              /\ Same(results.error.sum, <<TenthsOf(precursors), 10>>)

\* a precursor sum of 100.2 has been rejected
C2_Witness ==
    /\ PrecursorError
    /\ results.error.sum = Q(1002, 10)

\* C3: with a valid precursor sum, the silicate-composition error is returned
\* if and only if a Sodium Silicate activator is present and sio2 + na2o + h2o
\* is more than 0.1 away from 100, and it carries that sum; without a Sodium
\* Silicate activator nothing is checked and the calculation goes on.
C3_SilicateCompositionError ==
    (pc \notin {"validate_precursors", "validate_silicate"} /\ ~PrecursorError) =>
        /\ SilicateError <=>
              (HasSilicate /\ OffBy(SilicateTenths(activators[SS])))
        /\ SilicateError =>
              /\ DOMAIN results = {"error"}
              /\ Same(results.error.sum, <<SilicateTenths(activators[SS]), 10>>)
        /\ ~HasSilicate => (pc # "raised" /\ ~Failed)

\* a composition summing to 99.8 has been rejected
C3_Witness ==
    /\ SilicateError
    /\ results.error.sum = Q(998, 10)

\* C4: the total binder content is 350 for strength <= 30, 400 for
\* 30 < strength <= 40, 450 for 40 < strength <= 50 and 500 above 50, so
\* 30 -> 350, 31 -> 400, 40 -> 400, 41 -> 450, 50 -> 450, 51 -> 500.
C4_BinderContentBands ==
    total_binder_content # Unset =>
        LET s == target_strength
            c == total_binder_content
        IN  /\ c \in {R(350), R(400), R(450), R(500)}
            /\ c = R(350) <=> ~Less(R(30), s)
            /\ c = R(400) <=> (Less(R(30), s) /\ ~Less(R(40), s))
            /\ c = R(450) <=> (Less(R(40), s) /\ ~Less(R(50), s))
            /\ c = R(500) <=> Less(R(50), s)
            /\ s = R(30) => c = R(350)
            /\ s = R(31) => c = R(400)
            /\ s = R(40) => c = R(400)
            /\ s = R(41) => c = R(450)
            /\ s = R(50) => c = R(450)
            /\ s = R(51) => c = R(500)

\* strength 50, the upper end of its band, has been sized to 450
C4_Witness ==
    /\ Succeeded
    /\ target_strength = R(50)
    /\ total_binder_content = R(450)

\* the precursor percentages that are > 0, summed in tenths of a percent
PositiveTenths ==
    TenthsOf([n \in {m \in DOMAIN precursors : precursors[m].percentage[1] > 0}
                |-> precursors[n]])

\* C5 as stated: on every successful result total_binder equals the banded
\* binder content for the target strength.
C5_TotalBinderIsContent ==
    Succeeded => results.total_binder = total_binder_content

\* C5, amended: each precursor with percentage > 0 gets content * percentage
\* / 100, and total_binder is the content times the sum of those percentages
\* over 100; it is the banded content when they sum to exactly 100
\* (strength 40 with 70 and 30 gives 400).
C5_TotalBinderShare ==
    Succeeded =>
        LET bq == results.binder_quantities
            c  == total_binder_content
        IN  /\ DOMAIN bq = {n \in DOMAIN precursors : precursors[n].percentage[1] > 0}
            /\ \A n \in DOMAIN bq :
                  Same(bq[n], <<c[1] * precursors[n].percentage[1],
                                100 * precursors[n].percentage[2]>>)
            /\ Same(results.total_binder, <<c[1] * PositiveTenths, 1000>>)
            /\ PositiveTenths = 1000 => results.total_binder = c
            /\ (target_strength = R(40) /\ precursors = RefPrecursors)
                  => results.total_binder = R(400)

\* percentages summing to 99.9 were accepted and gave 399.6 for strength 40
C5_Witness ==
    /\ Succeeded
    /\ TenthsOf(precursors) = 999
    /\ total_binder_content = R(400)
    /\ results.total_binder = Q(3996, 10)

\* the mass of an activator in the result, 0 when it has no entry
MassOf(kind) ==
    IF kind \in DOMAIN results.activator_quantities
    THEN results.activator_quantities[kind] ELSE R(0)

\* binder content * activatorBinderRatio
ActivatorBudget == RMul(total_binder_content, act_binder_ratio)

\* C6: with both activators, siMass + shMass = binder content * ratio and
\* siMass = siShRatio * shMass (which is siMass = total * r / (1 + r)); binder
\* 400, ratio 0.45 and siShRatio 2.0 give 120 and 60.
C6_ActivatorSplit ==
    (Succeeded /\ HasSilicate /\ HasHydroxide) =>
        /\ DOMAIN results.activator_quantities = {SS, SH}
        /\ Same(RAdd(MassOf(SS), MassOf(SH)), ActivatorBudget)
        /\ Same(MassOf(SS), RMul(ss_sh_ratio, MassOf(SH)))
        /\ (total_binder_content = R(400) /\ act_binder_ratio = Q(45, 100)
              /\ ss_sh_ratio = R(2))
              => (MassOf(SS) = R(120) /\ MassOf(SH) = R(60))

\* 180 kg of activator was split into 120 and 60
C6_Witness ==
    /\ Succeeded
    /\ HasSilicate /\ HasHydroxide
    /\ results.total_activator = R(180)
    /\ MassOf(SS) = R(120)
    /\ MassOf(SH) = R(60)

\* C7: a single activator kind receives the whole activator mass whatever
\* siShRatio is, and the other kind has no entry; with no activator the
\* quantities are empty and total_activator, activator_solids, the activator
\* water and the activator mix ratio are 0.
C7_SingleOrNoActivator ==
    Succeeded =>
        /\ (HasSilicate /\ ~HasHydroxide) =>
              /\ DOMAIN results.activator_quantities = {SS}
              /\ Same(MassOf(SS), ActivatorBudget)
        /\ (HasHydroxide /\ ~HasSilicate) =>
              /\ DOMAIN results.activator_quantities = {SH}
              /\ Same(MassOf(SH), ActivatorBudget)
        /\ (~HasSilicate /\ ~HasHydroxide) =>
              /\ DOMAIN results.activator_quantities = {}
              /\ results.total_activator = R(0)
              /\ results.activator_solids = R(0)
              /\ results.water_content = extra_water
              /\ results.mix_ratio.activator = R(0)

\* sodium silicate alone received all 180 kg although siShRatio is 0.5
C7_Witness ==
    /\ Succeeded
    /\ HasSilicate /\ ~HasHydroxide
    /\ ss_sh_ratio = Q(1, 2)
    /\ MassOf(SS) = R(180)

\* the four range checks, in the order the code makes them
RangeChecks == <<"modulus", "sio2", "na2o", "h2o">>

\* x outside lo..hi, the ends being inside
OutOfBand(x, lo, hi) == x[1] < lo * x[2] \/ x[1] > hi * x[2]

\* C8: on a successful result the warnings are, in the order modulus, SiO2,
\* Na2O, H2O, exactly the checks whose value is outside its band (ends
\* inclusive): modulus outside 0.6..2.0, sio2 outside 30..35, na2o outside
\* 12..18, h2o outside 40..50; each names its value; none without silicate.
C8_Warnings ==
    Succeeded =>
        LET w == results.warnings
            ss == activators[SS]
            Flagged(c) ==
                CASE c = "modulus" ->
                        \/ 10 * ss.sio2[1] * ss.na2o[2] < 6 * ss.na2o[1] * ss.sio2[2]
                        \/ ss.sio2[1] * ss.na2o[2] > 2 * ss.na2o[1] * ss.sio2[2]
                  [] c = "sio2" -> OutOfBand(ss.sio2, 30, 35)
                  [] c = "na2o" -> OutOfBand(ss.na2o, 12, 18)
                  [] c = "h2o"  -> OutOfBand(ss.h2o, 40, 50)
        IN  IF ~HasSilicate THEN w = <<>>
            ELSE /\ [i \in 1..Len(w) |-> w[i].check] = SelectSeq(RangeChecks, Flagged)
                 /\ \A i \in 1..Len(w) :
                       IF w[i].check = "modulus"
                       THEN \* the modulus to two decimals: within 0.005 of sio2/na2o
                            RLe(RMul(RAbs(RSub(RMul(w[i].value, ss.na2o), ss.sio2)),
                                     R(200)),
                                ss.na2o)
                       ELSE w[i].value = ss[w[i].check]
                 /\ (ss.sio2 = R(20) /\ ss.na2o = R(25))
                       => \A i \in 1..Len(w) : w[i].check # "modulus"
                 /\ (ss.sio2 = R(36) /\ ss.na2o = R(10))
                       => (w # <<>> /\ w[1].check = "modulus")

\* sio2 = 36 with na2o = 10 (modulus 3.6) raised the modulus warning first
C8_Witness ==
    /\ Succeeded
    /\ HasSilicate
    /\ activators[SS].sio2 = R(36)
    /\ Len(results.warnings) = 4
    /\ results.warnings[1] = [check |-> "modulus", value |-> Q(36, 10)]

\* C9: the aggregate volume is what is left of 1 m3 after the binder, the
\* activators, the extra water and 0.02 of air, also when that is negative:
\* the call then still returns a result, with negative fine and coarse
\* aggregate masses and no warning beyond those of the range check.
C9_NegativeAggregateVolume ==
    agg_volume # Unset =>
        /\ Same(RAdd(RAdd(RAdd(RAdd(agg_volume,
                                    BinderVolume(binder_quantities, precursors)),
                               ActivatorVolume(activator_quantities, activators)),
                          <<extra_water[1], extra_water[2] * 1000>>),
                     <<2, 100>>),
                R(1))
        /\ Less(agg_volume, R(0)) =>
              /\ pc \in {"compute_properties", "returned"}
              /\ Less(fa_quantity_wet, R(0))
              /\ Less(ca_quantity_wet, R(0))
              /\ Returned =>
                    /\ Succeeded
                    /\ results.fine_aggregate = fa_quantity_wet
                    /\ results.coarse_aggregate = ca_quantity_wet
                    /\ \A i \in 1..Len(results.warnings) :
                          results.warnings[i].check \in
                              {RangeChecks[j] : j \in 1..Len(RangeChecks)}

\* a result with negative aggregate masses was returned
C9_Witness ==
    /\ Succeeded
    /\ Less(agg_volume, R(0))
    /\ Less(results.fine_aggregate, R(0))
    /\ Less(results.coarse_aggregate, R(0))

\* total solids of the result: binder masses + activator solids
SolidsOf == RAdd(results.total_binder, results.activator_solids)

\* C10: the water/solids ratio is total water / total solids when total
\* solids > 0 and 0 otherwise, total solids being the binder masses plus
\* silicate mass * (sio2 + na2o) / 100 plus hydroxide mass * f with
\* f = c / (1 + c), c = molarity * 40 / 1000; zero solids raise nothing.
C10_WaterSolidsRatio ==
    /\ Succeeded =>
          LET ofSS == IF HasSilicate
                      THEN RMul(MassOf(SS),
                                <<activators[SS].sio2[1] * activators[SS].na2o[2]
                                     + activators[SS].na2o[1] * activators[SS].sio2[2],
                                  100 * activators[SS].sio2[2] * activators[SS].na2o[2]>>)
                      ELSE R(0)
              ofSH == RSub(results.activator_solids, ofSS)
              m    == IF HasHydroxide THEN activators[SH].molarity ELSE R(0)
          IN  /\ Same(RMul(ofSH, RAdd(R(25), m)), RMul(MassOf(SH), m))
              /\ Less(R(0), SolidsOf) =>
                    Same(RMul(results.water_geopolymer_solids_ratio, SolidsOf),
                         results.water_content)
              /\ ~Less(R(0), SolidsOf) => results.water_geopolymer_solids_ratio = R(0)
    /\ pc = "raised" => fa_quantity_wet = Unset

\* a result whose total solids are 0 was returned with ratio 0
C10_Witness ==
    /\ Succeeded
    /\ SolidsOf = R(0)
    /\ results.water_geopolymer_solids_ratio = R(0)

\* C11: in every successful result mix_ratio.binder is 1.0; the activator,
\* fine_agg and coarse_agg ratios are total_activator, wet fine mass and wet
\* coarse mass divided by total_binder, and all 0 when total_binder is not
\* positive.
C11_MixRatios ==
    Succeeded =>
        LET tb == results.total_binder
            mr == results.mix_ratio
        IN  /\ mr.binder = R(1)
            /\ DOMAIN mr = {"binder", "activator", "fine_agg", "coarse_agg"}
            /\ Less(R(0), tb) =>
                  /\ RMul(mr.activator, tb) = results.total_activator
                  /\ RMul(mr.fine_agg, tb) = results.fine_aggregate
                  /\ RMul(mr.coarse_agg, tb) = results.coarse_aggregate
            /\ ~Less(R(0), tb) =>
                  /\ mr.activator = R(0)
                  /\ mr.fine_agg = R(0)
                  /\ mr.coarse_agg = R(0)

\* 180 kg of activator over 399.6 kg of binder gave the ratio 1800/3996
C11_Witness ==
    /\ Succeeded
    /\ results.total_binder = Q(3996, 10)
    /\ results.total_activator = R(180)
    /\ results.mix_ratio.activator = Q(1800, 3996)
    /\ results.mix_ratio.fine_agg # R(0)

\* the calls that have ended: those of the history and, once it has ended,
\* the current one
EndedCalls ==
    {history[i] : i \in 1..Len(history)}
    \cup (IF pc \in {"returned", "raised"}
          THEN {[args |-> called_with, ended |-> pc, results |-> results]} ELSE {})

\* C12: two calls with identical inputs, whatever was called before or in
\* between, end the same way with identical outputs (the same error, or the
\* same quantities, ratios and warnings).
C12_SameInputsSameOutputs ==
    \A c1 \in EndedCalls : \A c2 \in EndedCalls :
        c1.args = c2.args => (c1.ended = c2.ended /\ c1.results = c2.results)

\* a call with warnings was repeated after a call with other arguments
C12_Witness ==
    /\ Succeeded
    /\ Len(history) = 2
    /\ history[1].args = called_with
    /\ history[2].args # called_with
    /\ history[1].results = results
    /\ results.warnings # <<>>

\* water brought by the sodium silicate of the result: siMass * h2o / 100
SilicateWater ==
    IF HasSilicate THEN RDiv(RMul(MassOf(SS), activators[SS].h2o), R(100)) ELSE R(0)

\* C13: water_content = siMass * h2o/100 + shMass * (1 - f) + extra_water with
\* c = molarity * 40 / 1000 and f = c / (1 + c), that is 1 - f = 25 / (25 +
\* molarity); the term of an activator that is not used is absent, and the
\* moisture of the aggregates is not part of it.
C13_WaterContent ==
    Succeeded =>
        LET fromSH == RSub(RSub(results.water_content, extra_water), SilicateWater)
        IN  IF HasHydroxide
            THEN RMul(fromSH, RAdd(R(25), activators[SH].molarity))
                     = RMul(MassOf(SH), R(25))
            ELSE fromSH = R(0)

\* reference scenario with moist sand: 60 kg of 15 M hydroxide bring 37.5 kg of
\* water, 120 kg of silicate bring 66 kg, and the sand's moisture adds nothing
C13_Witness ==
    /\ Succeeded
    /\ HasSilicate /\ HasHydroxide
    /\ MassOf(SS) = R(120) /\ MassOf(SH) = R(60)
    /\ activators[SH].molarity = R(15)
    /\ fine_agg.moisture = R(2)
    /\ extra_water = R(0)
    /\ results.water_content = Q(1035, 10)

\* the wet mass of an aggregate, times 100: volume * sg * 1000 * (100 + moisture)
WetMassTimes100(volume, agg) ==
    RMul(RMul(volume, RMul(agg.sg, R(1000))), RAdd(R(100), agg.moisture))

\* C14: concrete_density = total_binder + total_activator + extra_water +
\* fine_aggregate + coarse_aggregate of the same result, where fine_aggregate
\* and coarse_aggregate are the wet masses volume * sg * 1000 * (1 +
\* moisture/100) of the fine and coarse volumes.
C14_ConcreteDensity ==
    Succeeded =>
        LET fineVolume   == RMul(agg_volume, fa_fraction)
            coarseVolume == RSub(agg_volume, fineVolume)
        IN  /\ results.concrete_density
                  = RAdd(results.total_binder,
                      RAdd(results.total_activator,
                        RAdd(results.extra_water,
                          RAdd(results.fine_aggregate, results.coarse_aggregate))))
            /\ results.extra_water = extra_water
            /\ RMul(results.fine_aggregate, R(100)) = WetMassTimes100(fineVolume, fine_agg)
            /\ RMul(results.coarse_aggregate, R(100))
                  = WetMassTimes100(coarseVolume, coarse_agg)

\* reference scenario with 50 kg of extra water and coarse aggregate at 10 %
\* moisture: 400 + 180 + 50 + 19309/32 + 637197/640 = 1426577/640, about
\* 2229.03 kg/m3
C14_Witness ==
    /\ Succeeded
    /\ extra_water = R(50)
    /\ coarse_agg.moisture = R(10)
    /\ results.fine_aggregate = Q(19309, 32)
    /\ results.coarse_aggregate = Q(637197, 640)
    /\ results.concrete_density = Q(1426577, 640)

\* the dry volume of an aggregate from its wet mass:
\* mass / (1 + moisture/100) / (sg * 1000)
DryVolume(wetMass, agg) ==
    RDiv(RDiv(wetMass, RAdd(R(1), RDiv(agg.moisture, R(100)))), RMul(agg.sg, R(1000)))

\* the absolute volumes of the materials of the result, in m3
VolumesOfResult ==
    LET binder   == SumValues([n \in DOMAIN results.binder_quantities |->
                        RDiv(results.binder_quantities[n],
                             RMul(precursors[n].sg, R(1000)))])
        silicate == IF HasSilicate
                    THEN RDiv(MassOf(SS), RMul(activators[SS].sg, R(1000))) ELSE R(0)
        hydroxide == IF HasHydroxide
                     THEN RDiv(MassOf(SH),
                               RAdd(R(1000), RMul(Q(16, 10), activators[SH].molarity)))
                     ELSE R(0)
        water    == RDiv(results.extra_water, R(1000))
        air      == Q(2, 100)
        fine     == DryVolume(results.fine_aggregate, fine_agg)
        coarse   == DryVolume(results.coarse_aggregate, coarse_agg)
    IN  RAdd(binder, RAdd(silicate, RAdd(hydroxide,
            RAdd(water, RAdd(air, RAdd(fine, coarse))))))

\* C15: on every successful result the absolute volumes of binder, sodium
\* silicate, sodium hydroxide, extra water, air (0.02) and the dry fine and
\* coarse aggregates sum to 1 m3, whatever the fine fraction and also when the
\* aggregate volume is negative.
C15_VolumesSumToOne == Succeeded => VolumesOfResult = R(1)

\* a result with a negative aggregate volume and a fine fraction of 0.355
C15_Witness ==
    /\ Succeeded
    /\ Less(agg_volume, R(0))
    /\ Less(results.fine_aggregate, R(0))
    /\ Less(results.coarse_aggregate, R(0))
    /\ fa_fraction = Q(355, 1000)
    /\ VolumesOfResult = R(1)

\* the sign of a rational: -1, 0 or 1
Sign(x) == IF x[1] < 0 THEN -1 ELSE IF x[1] = 0 THEN 0 ELSE 1

\* the base fraction in thousandths: 450 up to size 10, 400 up to 20, else 350
BaseThousandths ==
    IF Less(R(10), coarse_agg.size)
    THEN (IF Less(R(20), coarse_agg.size) THEN 350 ELSE 400)
    ELSE 450

\* the volumes have been balanced
Balanced == pc \in {"compute_properties", "returned"} /\ fa_fraction # Unset

\* C16: the fine fraction is base + (2.6 - fm) * 0.05 with base 0.45, 0.40,
\* 0.35 for size <= 10, <= 20, > 20; a higher fineness modulus gives a strictly
\* lower fraction; for fm within 2.0..3.5 it lies strictly between 0 and 1, so
\* the fine and coarse masses have the sign of the aggregate volume.
C16_FineFraction ==
    Balanced =>
        /\ RMul(fa_fraction, R(1000))
              = RAdd(R(BaseThousandths),
                     RMul(RSub(R(26), RMul(R(10), fine_agg.fm)), R(5)))
        /\ \A other \in FineAggs :
              Less(fine_agg.fm, other.fm)
                  => Less(FaFraction(other, coarse_agg), fa_fraction)
        /\ (~Less(fine_agg.fm, R(2)) /\ ~Less(Q(7, 2), fine_agg.fm))
              => /\ Less(R(0), fa_fraction) /\ Less(fa_fraction, R(1))
                 /\ Sign(fa_quantity_wet) = Sign(agg_volume)
                 /\ Sign(ca_quantity_wet) = Sign(agg_volume)
                 /\ Succeeded => /\ results.fine_aggregate = fa_quantity_wet
                                 /\ results.coarse_aggregate = ca_quantity_wet

\* size 10 and fineness modulus 3.5: 0.45 - 0.045 = 0.405, positive volumes
C16_Witness ==
    /\ Succeeded
    /\ coarse_agg.size = R(10)
    /\ fine_agg.fm = Q(7, 2)
    /\ fa_fraction = Q(405, 1000)
    /\ Sign(agg_volume) = 1
    /\ Sign(results.fine_aggregate) = 1
    /\ Sign(results.coarse_aggregate) = 1

\* no block after the validation has run: its locals are still unassigned
NothingSized ==
    /\ total_binder_content = Unset
    /\ binder_quantities = Unset
    /\ activator_quantities = Unset
    /\ total_water = Unset
    /\ agg_volume = Unset
    /\ fa_fraction = Unset
    /\ fa_quantity_wet = Unset
    /\ ca_quantity_wet = Unset

\* the silicate's chemistry would draw at least one warning
OutsideAdvisoryBands ==
    /\ HasSilicate
    /\ \/ OutOfBand(activators[SS].sio2, 30, 35)
       \/ OutOfBand(activators[SS].na2o, 12, 18)
       \/ OutOfBand(activators[SS].h2o, 40, 50)

\* C17: the precursor sum is checked first, so with both sums invalid the
\* precursor error is returned; the silicate error is returned only after a
\* valid precursor sum; and after either error no later stage has run and the
\* returned value carries no warnings, also with out-of-band silicate.
C17_ValidationOrder ==
    /\ (Returned /\ OffBy(TenthsOf(precursors))) => PrecursorError
    /\ SilicateError =>
          /\ ~OffBy(TenthsOf(precursors))
          /\ HasSilicate /\ OffBy(SilicateTenths(activators[SS]))
    /\ Failed =>
          /\ DOMAIN results = {"error"}
          /\ warnings = <<>>
          /\ NothingSized
    /\ (pc = "validate_silicate" \/ pc = "validate_precursors") => NothingSized

\* both sums are invalid and the silicate's water is outside 40..50: the
\* precursor error is returned, without warnings
C17_Witness ==
    /\ PrecursorError
    /\ HasSilicate
    /\ OffBy(SilicateTenths(activators[SS]))
    /\ OutsideAdvisoryBands
    /\ warnings = <<>>

\* a mass: a single number, not a material's entry
IsMass(x) == DOMAIN x = 1..2 /\ x[1] \in Int /\ x[2] \in Nat \ {0}

\* C18: the call leaves its arguments unchanged: at every point of the call,
\* and after it has returned an error or a result or has raised, precursors,
\* activators, fine_agg, coarse_agg and the numbers hold what was passed; the
\* returned binder_quantities and activator_quantities are mappings of their
\* own, from names to masses, not the input mappings.
C18_ArgumentsUnchanged ==
    /\ args = called_with
    /\ Succeeded =>
          /\ DOMAIN results.binder_quantities \subseteq DOMAIN precursors
          /\ DOMAIN results.activator_quantities = DOMAIN activators
          /\ \A n \in DOMAIN results.binder_quantities :
                /\ IsMass(results.binder_quantities[n])
                /\ DOMAIN precursors[n] = {"percentage", "sg"}
          /\ \A k \in DOMAIN results.activator_quantities :
                /\ IsMass(results.activator_quantities[k])
                /\ DOMAIN activators[k] = (IF k = SS THEN {"sio2", "na2o", "h2o", "sg"}
                                           ELSE {"molarity"})

\* the reference scenario has returned its result and the dicts passed still
\* hold 70 % and 30 %, next to the 280 kg and 120 kg of the result
C18_Witness ==
    /\ Succeeded
    /\ called_with = RefArgs
    /\ precursors = RefPrecursors
    /\ activators = RefActivators
    /\ fine_agg = RefFineAgg
    /\ coarse_agg = RefCoarseAgg
    /\ results.binder_quantities["Fly Ash"] = R(280)
    /\ results.binder_quantities["GGBFS"] = R(120)
    /\ precursors["Fly Ash"].percentage = R(70)

\* the activator inputs are not negative: the two ratios, the molarity and the
\* solids sio2 + na2o of the silicate
NonNegativeActivators ==
    /\ ~Less(act_binder_ratio, R(0))
    /\ ~Less(ss_sh_ratio, R(0))
    /\ HasHydroxide => ~Less(activators[SH].molarity, R(0))
    /\ HasSilicate => ~Less(RAdd(activators[SS].sio2, activators[SS].na2o), R(0))

\* the binder of a successful result is positive: some precursor has a
\* percentage > 0, binder_quantities is not empty, total_binder > 0, and the
\* mix ratios are the quotients by it
BinderIsPositive ==
    /\ \E n \in DOMAIN precursors : precursors[n].percentage[1] > 0
    /\ DOMAIN results.binder_quantities # {}
    /\ binder_quantities = results.binder_quantities
    /\ Less(R(0), results.total_binder)
    /\ RMul(results.mix_ratio.activator, results.total_binder) = results.total_activator

\* C19 as stated: on every successful result total_binder > 0, and neither
\* the mix-ratio guard nor the water/solids guard takes its zero branch.
C19_ZeroBranchesNeverTaken ==
    Succeeded => (BinderIsPositive /\ Less(R(0), SolidsOf))

\* C19: on every successful result some precursor has a percentage > 0,
\* binder_quantities is not empty and total_binder > 0, so the mix-ratio guard
\* never takes its zero branch; the water/solids guard never takes its zero
\* branch when the activator inputs are not negative (negative activator
\* solids can bring the total solids to 0 or below while the binder is > 0).
C19_BinderPositive ==
    Succeeded =>
        /\ BinderIsPositive
        /\ NonNegativeActivators => Less(R(0), SolidsOf)

\* percentages -30 and 130 pass the sum check: the one positive share gives
\* 1.3 * 400 = 520 kg of binder, and the solids are positive
C19_Witness ==
    /\ Succeeded
    /\ \E n \in DOMAIN precursors : precursors[n].percentage = R(-30)
    /\ DOMAIN results.binder_quantities # DOMAIN precursors
    /\ results.total_binder = R(520)
    /\ NonNegativeActivators
    /\ Less(R(0), SolidsOf)

====
